---------------------------- MODULE Spec2Model ----------------------------
(***************************************************************************)
(* A model of autophone's build acquisition cache (builds.py, BuildCache)  *)
(* and of the fleet orchestrator (autophone.py, AutoPhone): the job         *)
(* pipeline that turns a build URL into a job on every worker, and the      *)
(* liveness sweep with its crash policy.                                    *)
(***************************************************************************)
EXTENDS Integers, Sequences, FiniteSets, TLC

(***************************************************************************)
(* Program constants.                                                      *)
(***************************************************************************)
\* BuildCache.MAX_NUM_BUILDS
MAX_NUM_BUILDS == 20

\* BuildCache.EXPIRE_AFTER_SECONDS = 60 * 60 * 24
EXPIRE_AFTER_SECONDS == 60 * 60 * 24

(***************************************************************************)
(* Bounds of the model.                                                    *)
(***************************************************************************)
\* cache entries of earlier runs beyond MAX_NUM_BUILDS
ExtraBuilds == 2

\* how many triggers (triggerjobs commands and notifications) are served
MaxTriggers == 2

\* how many deaths of one worker beyond the crash threshold are followed
ExtraCrashes == 1

\* how many per-device commands are served
MaxCmds == 2

\* how many lines the command port is sent
MaxLines == 3

\* how many scratch directories of build_job are followed
MaxScratch == 6

\* how often one status message is followed through process_msg
MaxPasses == 2

\* how many lines a directory listing has
MaxListing == 2

(***************************************************************************)
(* The cache directory.  A key stands for base64(buildurl), which is       *)
(* injective, so the key and the URL are identified.                        *)
(***************************************************************************)
NumBackground == MAX_NUM_BUILDS + ExtraBuilds

\* entries left by earlier runs; key i was last used at time Mtime0(i)
BgKeys == 1 .. NumBackground

\* a directory of the cache root that is not a build (it has no lastused)
StrayKey == 0

\* a build that has never been cached
NewKey == NumBackground + 1

Keys == {StrayKey} \cup BgKeys \cup {NewKey}

\* the build URLs of the triggers: the oldest cached build and a new one
Urls == {1, NewKey}

\* cache[k].lastused when the entry holds no lastused file
NoMarker == -1

\* what a download of build.apk can bring: an archive whose application.ini
\* names a repository of build_job's table, one of another repository, a
\* file that is no archive (ZipFile raises BadZipfile), and an archive with
\* a member whose CRC is wrong (ZipFile opens it, testzip names the member)
Repos == {"mozilla-central"}

Artifacts == Repos \cup {"other-repo", "notzip", "badcrc"}

NoEntry ==
    [dir |-> FALSE, apk |-> "absent", lastused |-> NoMarker,
     symbols |-> FALSE, tests |-> FALSE, robocop |-> FALSE, ids |-> FALSE]

EmptyDir == [NoEntry EXCEPT !.dir = TRUE]

\* the two execution contexts that run the job pipeline: the connection
\* thread that holds cmd_lock (triggerjobs) and the notification callback
Threads == {"cmd", "pulse"}

\* the devices of the fleet
Phones == {"phone1", "phone2"}

\* a phoneid that no worker is registered under
NoPhone == "nophone"

VARIABLES
    tied,           \* whether cached builds share lastused times pairwise
    override,       \* override_build_dir: "none", or what its build.apk is
    unittests,      \* enable_unittests
    now,            \* the clock, in seconds
    cache,          \* the cache directory: key -> entry
    pc,             \* where each thread is
    url,            \* the build URL a thread is acquiring
    force,          \* the force argument of the thread's call of get
    ret,            \* what the thread's call of get returned
    tmpf,           \* the temporary file of the call's download of build.apk
    sweep,          \* the sweep that the last step of the pipeline ran
    good,           \* keys an unforced get has returned, not evicted since
    known,          \* per thread: its key was in good when its call began
    evicted,        \* per thread: a sweep removed its key during its call
    fail,           \* per thread: the fetches that failed in this call of get
    calls,          \* per thread: the force flags of this trigger's calls of get
    seen,           \* per thread: the build.apk that get_build's check opened
    build_dir,      \* per thread: cache_build_dir
    triggers,       \* how many triggers were served
    cmd_lock,       \* AutoPhone.cmd_lock is held
    jobq,           \* per worker: the descriptors add_job was given, in order
    phone_workers,  \* the registry: phoneid -> worker
    stopping,       \* AutoPhone._stop
    loop,           \* where the control loop is
    todo,           \* the phoneids the running liveness sweep has yet to check
    disabled_by,    \* per worker: what disabled it last, "none" once enabled
    restarted,      \* per worker: the last restart by the liveness sweep
    cmds,           \* how many per-device commands route_cmd has served
    msg,            \* the phoneid of msg in worker_msg_loop, once it is bound
    server,         \* the command server and its thread
    passed,         \* how often msg has been passed to process_msg (201)
    mail,           \* how the last call of mailer.send (177) ended
    stop_at,        \* per invoker of stop: how far its call has come
    probe,          \* a descriptor given to is_valid_job, and how the call ended
    conn,           \* per connection of the command port: its command and reply
    phone_cfg,      \* per key of the registry: the phone_cfg of its worker
    snapshot,       \* the cache file of the registry
    running,        \* the workers that were started in this process
    lines,          \* how many lines the command port was sent
    built,          \* a call of build_job that is looked at, and how it ended
    scratch,        \* how many directories of tempfile.mkdtemp exist
    worker_lock,    \* self.worker_lock (102) is held
    fanning,        \* the for loop of start_tests (210-212), taken step by step
    ftp             \* a directory listing that find_builds goes through

conf == <<tied, override, unittests>>
clock == <<now>>
local == <<url, force>>
hist == <<sweep, good, known, evicted, fail>>
pipe == <<calls, seen, build_dir, triggers, cmd_lock, jobq>>
watch == <<msg, passed, mail, server, stop_at>>
fleet ==
    <<phone_workers, stopping, loop, todo, disabled_by, restarted, cmds, watch>>

desk == <<conn, phone_cfg, snapshot, running, lines>>
locks == <<worker_lock, fanning>>
bench == <<built, scratch, locks, ftp>>
port == <<probe, desk, bench>>

\* what the command port leaves alone
offport ==
    <<conf, clock, cache, pc, ret, tmpf, local, hist, calls, seen, build_dir,
      triggers, jobq, loop, todo, disabled_by, restarted, cmds, msg, stop_at,
      probe, bench, mail, passed>>

vars == <<conf, clock, cache, pc, ret, tmpf, local, hist, pipe, fleet, port>>

(***************************************************************************)
(* clean_cache (builds.py 315-339).                                        *)
(***************************************************************************)
\* a sweep that forgets the preserve argument
keep_build_unpreserved(c, preserve, d, t) ==
    \/ c[d].lastused = NoMarker
    \/ t - c[d].lastused <= EXPIRE_AFTER_SECONDS

\* keep_build(d): the entry is not a candidate for eviction
keep_build(c, preserve, d, t) ==
    \/ preserve # {} /\ d \in preserve
    \/ c[d].lastused = NoMarker
    \/ t - c[d].lastused <= EXPIRE_AFTER_SECONDS

\* os.listdir(self.cache_dir)
listdir(c) == {d \in Keys : c[d].dir}

\* builds: the entries that keep_build rejects (each with its mtime)
builds(c, preserve, t) == {d \in listdir(c) : ~keep_build(c, preserve, d, t)}

\* a loop that stops one entry early: while len(builds) > MAX_NUM_BUILDS + 1
excess_one_short(B) ==
    IF Cardinality(B) > MAX_NUM_BUILDS + 1
    THEN Cardinality(B) - (MAX_NUM_BUILDS + 1) ELSE 0

\* how many entries the while loop pops: those beyond MAX_NUM_BUILDS
excess(B) ==
    IF Cardinality(B) > MAX_NUM_BUILDS THEN Cardinality(B) - MAX_NUM_BUILDS ELSE 0

\* The sets the loop can remove.  builds is sorted by mtime and popped from
\* the front, so the n oldest go; os.listdir gives no order and the sort is
\* stable, so among entries of equal mtime any may come first.
popped(c, B) ==
    LET n == excess(B)
        older(d) == {e \in B : c[e].lastused < c[d].lastused}
        upto(d) == {e \in B : c[e].lastused <= c[d].lastused}
    IN  IF n = 0 THEN {{}}
        ELSE LET p == CHOOSE d \in B :
                          Cardinality(older(d)) < n /\ n <= Cardinality(upto(d))
                 ties == upto(p) \ older(p)
             IN  {older(p) \cup S : S \in
                     {S \in SUBSET ties : Cardinality(older(p) \cup S) = n}}

\* shutil.rmtree of every popped entry
rmtree(c, R) == [d \in Keys |-> IF d \in R THEN NoEntry ELSE c[d]]

\* the sets of entries one run of clean_cache(preserve) at time t can remove
clean_cache(c, preserve, t) == popped(c, builds(c, preserve, t))

(***************************************************************************)
(* BuildCache.get (builds.py 219-313), one action per stretch of the code  *)
(* that ends with a download, during which other threads run.               *)
(***************************************************************************)
Dir == "dir"
None == "None"
Raised == "raised"

NoSweep == [by |-> "nobody", preserve |-> {}, removed |-> {}, stale |-> FALSE]

\* the call ends: get returns r, or an exception leaves it
Return(t, r) ==
    /\ ret' = [ret EXCEPT ![t] = r]
    /\ pc' = [pc EXCEPT ![t] = "got"]

\* 226-227: os.makedirs unless the entry directory exists
makedirs(c, k) == IF c[k].dir THEN c ELSE [c EXCEPT ![k] = EmptyDir]

\* a get that leaves lastused as it is
touch_skipped(c, k, t) == c

\* 241: file(os.path.join(cache_build_dir, 'lastused'), 'w')
touch(c, k, t) == [c EXCEPT ![k].lastused = t]

\* 220-232: override mode, else the eviction sweep that preserves this key,
\* the entry directory, and the decision to download build.apk
GetEnter(t) ==
    /\ pc[t] = "get_enter"
    /\ fail' = [fail EXCEPT ![t] = {}]
    /\ IF override # "none"
       THEN /\ Return(t, Dir)
            /\ known' = [known EXCEPT ![t] = FALSE]
            /\ evicted' = [evicted EXCEPT ![t] = FALSE]
            /\ UNCHANGED <<cache, sweep, good, tmpf>>
       ELSE \E R \in clean_cache(cache, {url[t]}, now) :
              LET k == url[t]
                  swept == makedirs(rmtree(cache, R), k)
                  fetch == force[t] \/ swept[k].apk = "absent"
              IN  /\ cache' = swept
                  /\ tmpf' = [tmpf EXCEPT ![t] = IF fetch THEN "empty" ELSE @]
                  /\ pc' = [pc EXCEPT ![t] =
                              IF fetch THEN "get_fetch" ELSE "get_extras"]
                  /\ sweep' = [by |-> t, preserve |-> {k}, removed |-> R,
                               stale |-> cache[k].dir
                                         /\ ~keep_build(cache, {}, k, now)]
                  /\ good' = good \ R
                  /\ known' = [known EXCEPT ![t] = k \in good]
                  /\ evicted' = [u \in Threads |->
                                   IF u = t THEN k \in R
                                   ELSE evicted[u]
                                        \/ (pc[u] \in {"get_fetch", "get_extras"}
                                            /\ url[u] \in R)]
                  /\ UNCHANGED ret
    /\ UNCHANGED <<port, fleet, conf, clock, local, pipe>>

\* a download straight into build_path: what had arrived stays in the entry
FetchFailed_in_place(t) ==
    /\ cache' = IF cache[url[t]].dir
                THEN [cache EXCEPT ![url[t]].apk = "partial"] ELSE cache
    /\ tmpf' = [tmpf EXCEPT ![t] = "none"]
    /\ fail' = [fail EXCEPT ![t] = @ \cup {"build"}]
    /\ Return(t, None)

\* 233-239: urlretrieve raised IOError; the temporary file, which holds what
\* had arrived, is unlinked and get returns None
FetchFailed(t) ==
    /\ cache' = cache
    /\ tmpf' = [tmpf EXCEPT ![t] = "none"]
    /\ fail' = [fail EXCEPT ![t] = @ \cup {"build"}]
    /\ Return(t, None)

\* 234, 240: urlretrieve brought artifact a; os.rename(tmpf.name,
\* build_path) raises OSError when a sweep has removed the entry directory
\* meanwhile, and the temporary file stays
FetchDone(t, a) ==
    /\ UNCHANGED fail
    /\ IF cache[url[t]].dir
       THEN /\ cache' = [cache EXCEPT ![url[t]].apk = a]
            /\ tmpf' = [tmpf EXCEPT ![t] = "none"]
            /\ pc' = [pc EXCEPT ![t] = "get_extras"]
            /\ UNCHANGED ret
       ELSE /\ cache' = cache
            /\ tmpf' = [tmpf EXCEPT ![t] = a]
            /\ Return(t, Raised)

\* 229-240: the download of build.apk
GetFetch(t) ==
    /\ pc[t] = "get_fetch"
    /\ \/ FetchFailed(t)
       \/ \E a \in Artifacts : FetchDone(t, a)
    /\ UNCHANGED <<port, fleet, conf, clock, local, pipe>>
    /\ sweep' = NoSweep
    /\ UNCHANGED <<good, known, evicted>>

\* How the fetch of the symbols package can end: "ok"; "notfound", an
\* IOError that wraps an IOError that wraps the FTP reply 550; "ftperror",
\* the same with another reply; "ioerror", an IOError whose strerror is not
\* itself an IOError (urllib's ContentTooShortError, a socket error, a full
\* disk); "badzip", zipfile.BadZipfile; "skipped", nothing was to be fetched.
SymbolsOutcomes == {"ok", "notfound", "ftperror", "ioerror", "badzip"}

\* 253-258: the handler reads ioerror.strerror.strerror.message, which
\* raises AttributeError unless the IOError is nested twice
SymbolsHandlerRaises(o) == o = "ioerror"

\* 250-252: extractall makes symbols/ and the directories above it
SymbolsFiles(e, o) ==
    IF o = "ok" THEN [e EXCEPT !.dir = TRUE, !.symbols = TRUE] ELSE e

\* How the fetches of the unit test files can end: "ok"; "tests", IOError
\* on the tests package; "testszip", the tests package is no archive;
\* "robocop" and "ids", IOError on robocop.apk and on fennec_ids.txt.
TestsOutcomes == {"ok", "tests", "testszip", "robocop", "ids"}

\* 281-284, 298, 312: the files in the entry after the fetches ended as o
TestsFiles(e, o) ==
    CASE o \in {"tests", "testszip", "skipped"} -> e
      [] o = "robocop" -> [e EXCEPT !.dir = TRUE, !.tests = TRUE]
      [] o = "ids" -> [e EXCEPT !.dir = TRUE, !.tests = TRUE, !.robocop = TRUE]
      [] OTHER -> [e EXCEPT !.dir = TRUE, !.tests = TRUE, !.robocop = TRUE,
                            !.ids = TRUE]

\* 276-280, 281, 292-297, 306-311, 313: what get returns after the fetches
TestsResult(o) ==
    CASE o \in {"ok", "skipped"} -> Dir
      [] o = "testszip" -> Raised
      [] OTHER -> None

\* 242-313: what get returns when the symbols fetch ended as so and, if the
\* handler let the call go on, the unit test fetches as to
ExtrasResult(so, to) ==
    IF so # "skipped" /\ SymbolsHandlerRaises(so) THEN Raised
    ELSE TestsResult(to)

\* the fetches that failed
ExtrasFailed(so, to) ==
    (IF so \in {"ok", "skipped"} THEN {} ELSE {"symbols"})
    \cup (IF so # "skipped" /\ SymbolsHandlerRaises(so) THEN {}
          ELSE CASE to \in {"ok", "skipped"} -> {}
                 [] to = "testszip" -> {"tests"}
                 [] OTHER -> {to})

\* 241-313: lastused is touched, which raises IOError when a sweep has
\* removed the entry directory meanwhile; then the symbols package, the
\* tests package, robocop.apk and fennec_ids.txt, and the return
GetExtras(t) ==
    /\ pc[t] = "get_extras"
    /\ IF ~cache[url[t]].dir
       THEN /\ Return(t, Raised)
            /\ UNCHANGED <<cache, fail>>
       ELSE
       LET e == touch(cache, url[t], now)[url[t]]
       IN  \E so \in IF force[t] \/ ~e.symbols THEN SymbolsOutcomes
                     ELSE {"skipped"} :
             LET e1 == SymbolsFiles(e, so)
             IN  \E to \in IF so # "skipped" /\ SymbolsHandlerRaises(so)
                           THEN {"skipped"}
                           ELSE IF unittests /\ (force[t] \/ ~e1.tests)
                           THEN TestsOutcomes ELSE {"skipped"} :
                   /\ cache' = [cache EXCEPT ![url[t]] = TestsFiles(e1, to)]
                   /\ fail' = [fail EXCEPT ![t] = @ \cup ExtrasFailed(so, to)]
                   /\ Return(t, ExtrasResult(so, to))
    /\ good' = IF ret'[t] = Dir /\ ~force[t] /\ cache'[url[t]].apk # "absent"
               THEN good \cup {url[t]} ELSE good
    /\ sweep' = NoSweep
    /\ UNCHANGED <<port, fleet, conf, clock, tmpf, local, pipe>>
    /\ UNCHANGED <<known, evicted>>

(***************************************************************************)
(* The job pipeline (autophone.py 206-213, 366-480).                       *)
(***************************************************************************)
\* job is None
NullJob == [null |-> TRUE]

\* 429-441: the lookup table from SourceRepository to tree and process name
RepoTable ==
    [r \in {"mozilla-central", "mozilla-inbound", "mozilla-aurora",
            "mozilla-beta"} |->
       CASE r = "mozilla-central" ->
              [tree |-> "mozilla-central", procname |-> "org.mozilla.fennec"]
         [] r = "mozilla-inbound" ->
              [tree |-> "mozilla-inbound", procname |-> "org.mozilla.fennec"]
         [] r = "mozilla-aurora" ->
              [tree |-> "mozilla-aurora",
               procname |-> "org.mozilla.fennec_aurora"]
         [] OTHER ->
              [tree |-> "mozilla-beta", procname |-> "org.mozilla.firefox"]]

\* the SourceRepository of an archive's application.ini
RepoOf(a) == IF a \in Repos THEN a ELSE IF a = "badcrc" THEN "mozilla-central"
             ELSE "elsewhere"

\* the build.apk in the directory get returned to thread t
ApkOf(t) == IF override # "none" THEN override ELSE cache[url[t]].apk

\* when a call of get has been dealt with, its record is dropped
Forget(t) ==
    /\ ret' = [ret EXCEPT ![t] = None]
    /\ tmpf' = [tmpf EXCEPT ![t] = "none"]
    /\ known' = [known EXCEPT ![t] = FALSE]
    /\ evicted' = [evicted EXCEPT ![t] = FALSE]
    /\ fail' = [fail EXCEPT ![t] = {}]
    /\ sweep' = NoSweep
    /\ UNCHANGED good

\* the time that has passed when a trigger arrives: none to speak of, or
\* more than the expiry time
Elapsed == {0, EXPIRE_AFTER_SECONDS + 1}

\* a new trigger on thread t for build URL u: get_build 390-391
Begin(t, u) ==
    /\ pc[t] = "idle"
    /\ triggers < MaxTriggers
    /\ triggers' = triggers + 1
    /\ \E d \in Elapsed : now' = now + d
    /\ url' = [url EXCEPT ![t] = u]
    /\ force' = [force EXCEPT ![t] = FALSE]
    /\ pc' = [pc EXCEPT ![t] = "get_enter"]
    /\ calls' = [calls EXCEPT ![t] = <<FALSE>>]
    /\ sweep' = NoSweep
    /\ UNCHANGED <<port, fleet, conf, cache, ret, tmpf>>
    /\ UNCHANGED <<good, known, evicted, fail, seen, build_dir, jobq>>

\* route_cmd 222-233 with cmd = 'triggerjobs', trigger_jobs 366-368
TriggerJobs(u) ==
    /\ ~cmd_lock
    /\ cmd_lock' = TRUE
    /\ Begin("cmd", u)

\* on_build 377-387 for a message that has a buildurl
OnBuild(u) ==
    /\ Begin("pulse", u)
    /\ UNCHANGED cmd_lock

\* on_build 377-386 for a message without buildurl: it is logged and nothing
\* else is done
OnBuildIgnored ==
    /\ triggers < MaxTriggers
    /\ triggers' = triggers + 1
    /\ sweep' = NoSweep
    /\ UNCHANGED <<port, fleet, conf, clock, cache, pc, ret, tmpf, local>>
    /\ UNCHANGED <<good, known, evicted, fail>>
    /\ UNCHANGED <<calls, seen, build_dir, cmd_lock, jobq>>

\* the thread is through with the trigger
Leave(t) ==
    /\ pc' = [pc EXCEPT ![t] = "idle"]
    /\ url' = [url EXCEPT ![t] = NewKey]
    /\ force' = [force EXCEPT ![t] = FALSE]
    /\ calls' = [calls EXCEPT ![t] = << >>]
    /\ seen' = [seen EXCEPT ![t] = "none"]
    /\ build_dir' = [build_dir EXCEPT ![t] = None]

\* an exception leaves trigger_jobs or on_build; route_cmd has no handler
\* and no finally, so cmd_lock.release() of line 279 is not reached
Propagate(t) ==
    /\ Leave(t)
    /\ UNCHANGED cmd_lock

\* trigger_jobs or on_build returns; route_cmd releases cmd_lock (279)
Finish(t) ==
    /\ Leave(t)
    /\ cmd_lock' = IF t = "cmd" THEN FALSE ELSE cmd_lock

\* 395-403: ZipFile(build_path) raises BadZipfile for a file that is no
\* archive; testzip() names a member with a wrong CRC in its result, which
\* get_build does not read
Validate(a) == IF a \in {"notzip", "partial"} THEN "BadZipfile" ELSE "passed"

\* get_build 392-404, after the first call of get has ended
GetBuild(t) ==
    /\ pc[t] = "got"
    /\ Len(calls[t]) = 1
    /\ Forget(t)
    /\ IF ret[t] = Raised \/ (ret[t] = Dir /\ ApkOf(t) = "absent")
       THEN \* get raised, or ZipFile raised IOError: there is no build.apk
            /\ Propagate(t)
       ELSE IF ret[t] = None
       THEN /\ pc' = [pc EXCEPT ![t] = "build_job"]
            /\ UNCHANGED <<url, force, calls, seen, build_dir, cmd_lock>>
       ELSE /\ seen' = [seen EXCEPT ![t] = ApkOf(t)]
            /\ IF Validate(ApkOf(t)) = "BadZipfile"
               THEN /\ force' = [force EXCEPT ![t] = TRUE]
                    /\ calls' = [calls EXCEPT ![t] = Append(@, TRUE)]
                    /\ pc' = [pc EXCEPT ![t] = "get_enter"]
                    /\ UNCHANGED build_dir
               ELSE /\ build_dir' = [build_dir EXCEPT ![t] = Dir]
                    /\ pc' = [pc EXCEPT ![t] = "build_job"]
                    /\ UNCHANGED <<force, calls>>
            /\ UNCHANGED <<url, cmd_lock>>
    /\ UNCHANGED <<port, fleet, conf, clock, cache, triggers, jobq>>

\* get_build 401-404, after the forced call of get has ended
GetBuildAgain(t) ==
    /\ pc[t] = "got"
    /\ Len(calls[t]) = 2
    /\ Forget(t)
    /\ IF ret[t] = Raised
       THEN Propagate(t)
       ELSE /\ build_dir' = [build_dir EXCEPT ![t] = ret[t]]
            /\ pc' = [pc EXCEPT ![t] = "build_job"]
            /\ UNCHANGED <<url, force, calls, seen, cmd_lock>>
    /\ UNCHANGED <<port, fleet, conf, clock, cache, triggers, jobq>>

\* 443-450: the descriptor; the SourceStamp of an artifact stands for all
\* that its application.ini says of the build
Descriptor(t, a) ==
    [cache_build_dir |-> IF override # "none"
                         THEN [root |-> "override_build_dir", key |-> 0]
                         ELSE [root |-> "cache_dir", key |-> url[t]],
     tree |-> RepoTable[RepoOf(a)].tree,
     blddate |-> "mktime(BuildID)",
     buildid |-> "BuildID",
     revision |-> a,
     androidprocname |-> RepoTable[RepoOf(a)].procname,
     version |-> "Version",
     bldtype |-> "opt"]

\* How build_job ends for the build.apk a: "job"; "None", BadZipfile was
\* caught; "IOError", there is no build.apk to open; "KeyError", extract
\* (414) finds no application.ini in the archive; "NoOptionError", cfg.get
\* (422-425) finds a key missing in it; "UnboundLocalError", no branch of
\* 430-441 assigned tree, which line 444 reads.
BuildJobEnds(a) ==
    CASE a = "absent" -> "IOError"
      [] a \in {"notzip", "partial"} -> "None"
      [] a = "noini" -> "KeyError"
      [] a = "badini" -> "NoOptionError"
      [] RepoOf(a) \notin DOMAIN RepoTable -> "UnboundLocalError"
      [] OTHER -> "job"

\* build_job 406-452: the descriptor, NullJob, or the exception's name
build_job(t) ==
    IF build_dir[t] = None THEN NullJob
    ELSE LET e == BuildJobEnds(ApkOf(t))
         IN  CASE e = "job" -> Descriptor(t, ApkOf(t))
               [] e = "None" -> NullJob
               [] OTHER -> [raised |-> e]

\* what build.apk can be when build_job opens it: as downloaded, missing,
\* cut short, an archive without application.ini, or one whose
\* application.ini lacks a key of its App section
Apks == Artifacts \cup {"absent", "partial", "noini", "badini"}

\* build_job 418, 451: shutil.rmtree(tmpdir) stands in the handler of
\* BadZipfile and before the return of the job
RemovesScratch(ends) == ends \in {"None", "job"}

NotBuilt == [dir |-> None, apk |-> "absent", ends |-> "none"]

\* build_job 406-411 is called with a build directory d whose build.apk is
\* a; without a directory it returns None at once, else it makes tmpdir
BuildJobBegins(d, a) ==
    /\ built.ends # "pending"
    /\ scratch < MaxScratch
    /\ built' = [dir |-> d, apk |-> a,
                 ends |-> IF d = None THEN "None" ELSE "pending"]
    /\ scratch' = IF d = None THEN scratch ELSE scratch + 1
    /\ UNCHANGED <<probe, desk, locks, ftp, conf, clock, cache, pc, ret, tmpf, local,
                   hist, pipe, fleet>>

\* build_job 411-452 runs to its end
BuildJobReturns ==
    /\ built.ends = "pending"
    /\ built' = [built EXCEPT !.ends = BuildJobEnds(built.apk)]
    /\ scratch' = IF RemovesScratch(BuildJobEnds(built.apk)) THEN scratch - 1
                  ELSE scratch
    /\ UNCHANGED <<probe, desk, locks, ftp, conf, clock, cache, pc, ret, tmpf, local,
                   hist, pipe, fleet>>

\* start_tests 209-213 for a valid job, one statement at a time: the lock
\* is taken and phone_workers.values() (a list, in Python 2) is made; left
\* are the workers of that list still to be given the job, given those
\* that have it
NoFanout == [at |-> "off", left |-> {}, given |-> {}]

FanOutAcquire ==
    /\ triggers < MaxTriggers
    /\ ~worker_lock
    /\ triggers' = triggers + 1
    /\ worker_lock' = TRUE
    /\ fanning' = [at |-> "on", left |-> DOMAIN phone_workers, given |-> {}]
    /\ UNCHANGED <<probe, desk, built, scratch, ftp, fleet, conf, clock, cache,
                   pc, ret, tmpf, local, hist>>
    /\ UNCHANGED <<calls, seen, build_dir, cmd_lock, jobq>>

\* 211-212: p.add_job(job) for the next worker of the list
FanOutAdd ==
    /\ fanning.at = "on"
    /\ \E k \in fanning.left :
         fanning' = [fanning EXCEPT !.left = @ \ {k}, !.given = @ \cup {k}]
    /\ UNCHANGED <<probe, desk, built, scratch, ftp, worker_lock, fleet, conf,
                   clock, cache, pc, ret, tmpf, local, hist, pipe>>

\* 213: the list is through and the lock is released
FanOutRelease ==
    /\ fanning.at = "on"
    /\ fanning.left = {}
    /\ worker_lock' = FALSE
    /\ fanning' = NoFanout
    /\ UNCHANGED <<probe, desk, built, scratch, ftp, fleet, conf, clock, cache,
                   pc, ret, tmpf, local, hist, pipe>>

(***************************************************************************)
(* builds.py: the lines of an FTP directory listing and what the two       *)
(* build locations and find_builds make of them.                           *)
(***************************************************************************)
\* what a name of a listing begins with: a date as in 2012-05-01-03-05-17,
\* the digits of a time in seconds, or something else (latest, README)
Stamps == {"date", "epoch", "word"}

\* a line of a listing: how many fields separated by white space it has (a
\* directory entry has 9, a line like 'total 24' has 2); its last field
\* begins with stamp and ends, or does not, with -<repo>-android for one of
\* the repos; recent says whether the time that stamp gives, if it gives
\* one, lies between start_time and end_time
FtpLines == [fields : {2, 9}, stamp : Stamps, suffix : BOOLEAN,
             recent : BOOLEAN]

\* a time between start_time and end_time, or one outside
When(recent) == IF recent THEN "within" ELSE "outside"

\* datetime.strptime(s, '%Y-%m-%d-%H-%M-%S') (builds.py 56)
strptime(stamp, recent) ==
    IF stamp = "date" THEN [ends |-> "returns", build_time |-> When(recent)]
    ELSE [ends |-> "ValueError"]

\* int(s) of a name (builds.py 89)
int(stamp, suffix, recent) ==
    IF stamp = "epoch" /\ ~suffix
    THEN [ends |-> "returns", build_time |-> When(recent)]
    ELSE [ends |-> "ValueError"]

NoTime == [ends |-> "returns", build_time |-> None]

\* Nightly.build_info_from_ftp (builds.py 47-59): the last field is matched
\* against '(.*)-<repo>-android$' and the group is parsed as a date
Nightly(line) ==
    IF line.suffix THEN strptime(line.stamp, line.recent) ELSE NoTime

\* Tinderbox.build_info_from_ftp (builds.py 87-90): field 8 is taken as a
\* number of seconds
Tinderbox(line) ==
    IF line.fields < 9 THEN [ends |-> "IndexError"]
    ELSE int(line.stamp, line.suffix, line.recent)

build_info_from_ftp(strategy, line) ==
    IF strategy = "nightly" THEN Nightly(line) ELSE Tinderbox(line)

NoListing == [at |-> "off"]

\* find_builds 180-187: the listing of a directory of the build location
FtpDir(strategy, lines_) ==
    /\ ftp.at = "off"
    /\ ftp' = [at |-> "lines", strategy |-> strategy, lines |-> lines_,
               builds |-> << >>, skipped |-> 0]
    /\ UNCHANGED <<probe, desk, built, scratch, locks, fleet, conf, clock, cache,
                   pc, ret, tmpf, local, hist, pipe>>

\* find_builds 188-205: the next line of the listing; a line without a
\* time, or with one outside start_time..end_time, is skipped, and the
\* directory of any other is searched for builds. An exception of
\* build_info_from_ftp leaves find_builds
FindBuildsLine ==
    /\ ftp.at = "lines"
    /\ ftp.lines # << >>
    /\ LET line == Head(ftp.lines)
           info == build_info_from_ftp(ftp.strategy, line)
       IN  ftp' = CASE info.ends # "returns" ->
                         [ftp EXCEPT !.at = info.ends]
                    [] info.build_time \in {None, "outside"} ->
                         [ftp EXCEPT !.lines = Tail(@), !.skipped = @ + 1]
                    [] OTHER ->
                         [ftp EXCEPT !.lines = Tail(@),
                                     !.builds = Append(@, line)]
    /\ UNCHANGED <<probe, desk, built, scratch, locks, fleet, conf, clock, cache,
                   pc, ret, tmpf, local, hist, pipe>>

\* find_builds 206-208: the listing is through
FindBuildsReturns ==
    /\ ftp.at = "lines"
    /\ ftp.lines = << >>
    /\ ftp' = [ftp EXCEPT !.at = "returned"]
    /\ UNCHANGED <<probe, desk, built, scratch, locks, fleet, conf, clock, cache,
                   pc, ret, tmpf, local, hist, pipe>>

\* 460-473: the keys is_valid_job looks for
CheckedFields == {"androidprocname", "revision", "blddate", "bldtype", "version"}

\* is_valid_job 454-480: "False" for None, "True", or "raises" when a key
\* is missing
is_valid_job(j) ==
    IF j = NullJob THEN "False"
    ELSE IF CheckedFields \ DOMAIN j # {} THEN "raises"
    ELSE "True"

\* 460-473: error_list, as the set of the checked keys that job lacks
error_list(j) == CheckedFields \ DOMAIN j

\* AutoPhone has a logger attribute: no line of the class assigns one
\* (79-137), the module logs through logging
HasLogger == FALSE

\* How a call of is_valid_job ends (454-480): it returns False for None and
\* True when no checked key is missing; else line 477 reads self.logger,
\* which raises AttributeError before NameError(error_message) is raised
\* at 478; error_message names the keys of error_list.
is_valid_job_ends(j) ==
    IF j = NullJob THEN [returns |-> FALSE]
    ELSE IF error_list(j) = {} THEN [returns |-> TRUE]
    ELSE IF ~HasLogger THEN [raises |-> "AttributeError", names |-> {}]
    ELSE [raises |-> "NameError", names |-> error_list(j)]

\* no call of is_valid_job is being looked at
NoProbe == [job |-> NullJob, ends |-> [pending |-> FALSE]]

\* a call of is_valid_job(probe.job) runs to its end
IsValidJob ==
    /\ "pending" \in DOMAIN probe.ends
    /\ probe.ends.pending
    /\ probe' = [probe EXCEPT !.ends = is_valid_job_ends(probe.job)]
    /\ UNCHANGED <<desk, bench, conf, clock, cache, pc, ret, tmpf, local, hist,
                   pipe, fleet>>

\* a fan-out that leaves the disabled workers out
start_tests_enabled(j) ==
    IF is_valid_job(j) = "True"
    THEN [p \in DOMAIN phone_workers |->
            IF phone_workers[p].state = "DISABLED" THEN jobq[p]
            ELSE Append(jobq[p], j)]
    ELSE jobq

\* a fan-out that does not ask is_valid_job
start_tests_unchecked(j) ==
    [p \in DOMAIN phone_workers |-> Append(jobq[p], j)]

\* start_tests 206-213: the queues after the fan-out of job j
start_tests(j) ==
    IF is_valid_job(j) = "True"
    THEN [p \in DOMAIN phone_workers |-> Append(jobq[p], j)]
    ELSE jobq

\* trigger_jobs 368-370, on_build 387: build_job, then start_tests
StartJob(t) ==
    /\ pc[t] = "build_job"
    /\ LET j == build_job(t)
       IN  IF "raised" \in DOMAIN j \/ is_valid_job(j) = "raises"
           THEN /\ Propagate(t)
                /\ UNCHANGED jobq
           ELSE /\ jobq' = start_tests(j)
                /\ Finish(t)
    /\ scratch' = IF build_dir[t] # None
                     /\ ~RemovesScratch(BuildJobEnds(ApkOf(t)))
                  THEN scratch + 1 ELSE scratch
    /\ sweep' = NoSweep
    /\ UNCHANGED <<probe, desk, built, locks, ftp, fleet, conf, clock, cache, ret,
                   tmpf, triggers>>
    /\ UNCHANGED <<good, known, evicted, fail>>

(***************************************************************************)
(* The workers (worker.py, PhoneWorker and its crash accounting), as the   *)
(* orchestrator uses them.                                                  *)
(***************************************************************************)
\* the crash count beyond which too_many_crashes() holds
CrashThreshold == 2

MaxCrashes == CrashThreshold + ExtraCrashes

\* PhoneTestMessage: the states a worker reports
DISABLED == "DISABLED"
DISCONNECTED == "DISCONNECTED"
States == {"IDLE", "WORKING", DISCONNECTED, DISABLED}

\* worker.crashes.add_crash()
add_crash(w) == [w EXCEPT !.crashes = @ + 1]

\* worker.crashes.too_many_crashes()
too_many_crashes(w) == w.crashes > CrashThreshold

\* worker.stop()
stop_worker(w) == [w EXCEPT !.alive = FALSE]

\* stop 485-486: every worker of the registry is stopped
stop_all(ws) == [k \in DOMAIN ws |-> stop_worker(ws[k])]

\* worker.start(initial_state)
start_worker(w, initial_state) ==
    [w EXCEPT !.alive = TRUE, !.state = initial_state]

\* worker.disable(), enable(), debug(level), ping()
worker_op(w, cmd) ==
    CASE cmd = "disable" -> [w EXCEPT !.state = DISABLED]
      [] cmd = "enable" -> [w EXCEPT !.state = DISCONNECTED]
      [] OTHER -> w

\* a worker's process dies
WorkerDies(p) ==
    /\ p \in DOMAIN phone_workers
    /\ phone_workers[p].alive
    /\ phone_workers[p].crashes < MaxCrashes
    /\ phone_workers' = [phone_workers EXCEPT ![p].alive = FALSE]
    /\ UNCHANGED <<stopping, loop, todo, disabled_by, restarted, cmds>>
    /\ UNCHANGED watch
    /\ UNCHANGED <<port, conf, clock, cache, pc, ret, tmpf, local, hist, pipe>>

\* a running worker that is not disabled goes on with its work
WorkerReports(p, st) ==
    /\ p \in DOMAIN phone_workers
    /\ phone_workers[p].alive
    /\ phone_workers[p].state # DISABLED
    /\ st \in States \ {DISABLED, phone_workers[p].state}
    /\ phone_workers' = [phone_workers EXCEPT ![p].state = st]
    /\ UNCHANGED <<stopping, loop, todo, disabled_by, restarted, cmds>>
    /\ UNCHANGED watch
    /\ UNCHANGED <<port, conf, clock, cache, pc, ret, tmpf, local, hist, pipe>>

(***************************************************************************)
(* stop (autophone.py 482-487) and who calls it: the command port (229,    *)
(* 323), the handler of SIGTERM (493-494) and the control loop (202-203).  *)
(***************************************************************************)
Invokers == {"conn", "signal", "loop"}

\* the statements of stop in their order: 483, 484, 485-486, 487
stop_order == <<"flag", "shutdown", "workers", "join">>

NotCalled == [state |-> "off", done |-> 0]

\* the SIGTERM handler runs on the main thread, which goes on when the
\* handler has returned
MainRuns == stop_at["signal"].state # "on"

\* the statement that the call of invoker i executes next
NextOf(i) == stop_order[stop_at[i].done + 1]

\* server.shutdown() (484) and server_thread.join() (487): on a server
\* that run has not made they raise AttributeError; shutdown waits until
\* serve_forever has left its loop, which it has not entered before the
\* thread is started (148-149)
server_call == [none |-> "raises", created |-> "waits", serving |-> "goes",
              shut |-> "goes"]

\* stop has returned to invoker i: route_cmd releases the lock (279), the
\* control loop has left its try statement (202-203)
Back(i) ==
    /\ cmd_lock' = IF i = "conn" THEN FALSE ELSE cmd_lock
    /\ loop' = IF i = "loop" THEN "exited" ELSE loop

\* an exception leaves stop: route_cmd keeps the lock, and run ends with the
\* exception when it was raised on the main thread
Thrown(i) ==
    /\ loop' = IF i = "conn" THEN loop ELSE "crashed"
    /\ UNCHANGED cmd_lock

\* one statement of the call of stop by invoker i
StopStep(i) ==
    /\ stop_at[i].state = "on"
    /\ i = "loop" => MainRuns
    /\ LET last == stop_at[i].done + 1 = Len(stop_order)
           goes == /\ stop_at' = [stop_at EXCEPT ![i] =
                                    [state |-> IF last THEN "returned" ELSE "on",
                                     done |-> @.done + 1]]
                   /\ IF last THEN Back(i) ELSE UNCHANGED <<cmd_lock, loop>>
           raises == /\ stop_at' = [stop_at EXCEPT ![i].state = "raised"]
                     /\ Thrown(i)
       IN  CASE NextOf(i) = "flag" ->
                  /\ stopping' = TRUE
                  /\ goes
                  /\ UNCHANGED <<phone_workers, server>>
             [] NextOf(i) = "shutdown" ->
                  /\ server_call[server] # "waits"
                  /\ IF server_call[server] = "raises"
                     THEN raises /\ UNCHANGED server
                     ELSE goes /\ server' = "shut"
                  /\ UNCHANGED <<phone_workers, stopping>>
             [] NextOf(i) = "workers" ->
                  /\ phone_workers' = stop_all(phone_workers)
                  /\ goes
                  /\ UNCHANGED <<stopping, server>>
             [] NextOf(i) = "join" ->
                  /\ server # "serving"
                  /\ IF server = "shut" THEN goes ELSE raises
                  /\ UNCHANGED <<phone_workers, stopping, server>>
    /\ UNCHANGED <<todo, disabled_by, restarted, cmds, msg, passed, mail>>
    /\ UNCHANGED <<calls, seen, build_dir, triggers, jobq>>
    /\ UNCHANGED <<port, conf, clock, cache, pc, ret, tmpf, local, hist>>

\* route_cmd 222-229: the line 'stop' on a connection of the command port
StopCmd ==
    /\ server \in {"serving", "shut"}
    /\ ~cmd_lock
    /\ stop_at["conn"].state = "off"
    /\ cmd_lock' = TRUE
    /\ stop_at' = [stop_at EXCEPT !["conn"].state = "on"]
    /\ UNCHANGED <<phone_workers, stopping, loop, todo, disabled_by, restarted,
                   cmds, msg, passed, mail, server>>
    /\ UNCHANGED <<calls, seen, build_dir, triggers, jobq>>
    /\ UNCHANGED <<port, conf, clock, cache, pc, ret, tmpf, local, hist>>

\* main 493-494, 534: SIGTERM arrives once its handler is installed, and the
\* handler is run on the main thread
Sigterm ==
    /\ loop \notin {"installing", "exited", "crashed"}
    /\ \A i \in {"signal", "loop"} : stop_at[i].state = "off"
    /\ stop_at' = [stop_at EXCEPT !["signal"].state = "on"]
    /\ UNCHANGED <<phone_workers, stopping, loop, todo, disabled_by, restarted,
                   cmds, msg, passed, mail, server>>
    /\ UNCHANGED <<port, conf, clock, cache, pc, ret, tmpf, local, hist, pipe>>

\* 191-203: KeyboardInterrupt is raised inside the try statement of the
\* control loop
Interrupt ==
    /\ loop \in {"top", "sweep", "recv"}
    /\ \A i \in {"signal", "loop"} : stop_at[i].state = "off"
    /\ loop' = "stop"
    /\ todo' = {}
    /\ stop_at' = [stop_at EXCEPT !["loop"].state = "on"]
    /\ UNCHANGED <<phone_workers, stopping, disabled_by, restarted, cmds, msg,
                   passed, mail, server>>
    /\ UNCHANGED <<port, conf, clock, cache, pc, ret, tmpf, local, hist, pipe>>

\* main 534: the handler of SIGTERM is installed
Install ==
    /\ loop = "installing"
    /\ loop' = "run"
    /\ UNCHANGED <<phone_workers, stopping, todo, disabled_by, restarted, cmds>>
    /\ UNCHANGED watch
    /\ UNCHANGED <<port, conf, clock, cache, pc, ret, tmpf, local, hist, pipe>>

\* run 145-147: the command server is made
RunServer ==
    /\ loop = "run"
    /\ MainRuns
    /\ loop' = "starting"
    /\ server' = "created"
    /\ UNCHANGED <<phone_workers, stopping, todo, disabled_by, restarted, cmds,
                   msg, passed, mail, stop_at>>
    /\ UNCHANGED <<port, conf, clock, cache, pc, ret, tmpf, local, hist, pipe>>

\* run 148-150: the thread of serve_forever is started, and the control
\* loop is entered
RunThread ==
    /\ loop = "starting"
    /\ MainRuns
    /\ loop' = "top"
    /\ server' = "serving"
    /\ UNCHANGED <<phone_workers, stopping, todo, disabled_by, restarted, cmds,
                   msg, passed, mail, stop_at>>
    /\ UNCHANGED <<port, conf, clock, cache, pc, ret, tmpf, local, hist, pipe>>

(***************************************************************************)
(* The control loop and the liveness sweep (autophone.py 153-203).         *)
(***************************************************************************)
\* a policy that looks at the counter as it was before this death
initial_state_uncounted(w) ==
    IF too_many_crashes([w EXCEPT !.crashes = @ - 1]) THEN DISABLED
    ELSE DISCONNECTED

\* 167-173: the state the dead worker w is restarted into
initial_state(w) == IF too_many_crashes(w) THEN DISABLED ELSE DISCONNECTED

\* 159-174: stop, count the crash, choose the state, start
restart(w) ==
    LET counted == add_crash(stop_worker(w))
    IN  start_worker(counted, initial_state(counted))

\* 192-193, 154: the loop condition and the keys the sweep will visit
LoopTop ==
    /\ loop = "top"
    /\ MainRuns
    /\ IF stopping
       THEN /\ loop' = "exited"
            /\ UNCHANGED todo
       ELSE /\ loop' = "sweep"
            /\ todo' = DOMAIN phone_workers
    /\ UNCHANGED <<phone_workers, stopping, disabled_by, restarted, cmds>>
    /\ UNCHANGED watch
    /\ UNCHANGED <<port, conf, clock, cache, pc, ret, tmpf, local, hist, pipe>>

\* 176-181: how self.mailer.send ends: the mail is sent, or it raises
\* socket.error, which 179 catches, or another exception, as smtplib does
\* when the server refuses the sender, the recipients or the message
MailEnds == {"sent", "socket.error", "SMTPException"}

\* 155-181: one round of the for loop of check_for_dead_workers; sent says
\* how the notification of a dead worker ends. An exception that 179 does
\* not catch leaves check_for_dead_workers and worker_msg_loop (202 catches
\* KeyboardInterrupt alone)
CheckWorker(p, sent) ==
    /\ loop = "sweep"
    /\ MainRuns
    /\ p \in todo
    /\ todo' = todo \ {p}
    /\ IF phone_workers[p].alive
       THEN UNCHANGED <<phone_workers, disabled_by, restarted, mail, loop>>
       ELSE LET w == restart(phone_workers[p])
            IN  /\ phone_workers' = [phone_workers EXCEPT ![p] = w]
                /\ restarted' = [restarted EXCEPT ![p] =
                                   [happened |-> TRUE, crashes |-> w.crashes,
                                    state |-> w.state]]
                /\ disabled_by' = [disabled_by EXCEPT ![p] =
                                     IF w.state = DISABLED /\ @ = "none"
                                     THEN "crashes" ELSE @]
                /\ mail' = sent
                /\ loop' = IF sent \in {"sent", "socket.error"} THEN loop
                           ELSE "crashed"
    /\ UNCHANGED <<stopping, cmds>>
    /\ UNCHANGED <<msg, passed, server, stop_at>>
    /\ UNCHANGED <<port, conf, clock, cache, pc, ret, tmpf, local, hist, pipe>>

\* the for loop is through
SweepDone ==
    /\ loop = "sweep"
    /\ MainRuns
    /\ todo = {}
    /\ loop' = "recv"
    /\ UNCHANGED <<phone_workers, stopping, todo, disabled_by, restarted, cmds>>
    /\ UNCHANGED watch
    /\ UNCHANGED <<port, conf, clock, cache, pc, ret, tmpf, local, hist, pipe>>

\* msg before worker_msg_loop has received a message
Unbound == "unbound"

\* how worker_msg_queue.get(timeout=5) (195) ends: with Queue.Empty, with
\* an IOError whose errno is EINTR or another one, or with a message
Receipts ==
    {[ends |-> e] : e \in {"Empty", "EINTR", "IOError"}}
    \cup {[ends |-> "message", phoneid |-> p] : p \in Phones \cup {NoPhone}}

\* 194-201: the wait for a status message ends as got says. Empty and EINTR
\* go on with the loop; another IOError leaves msg as it is and goes on to
\* line 201, where an unbound msg raises UnboundLocalError and a phoneid
\* that the registry does not hold raises KeyError: only KeyboardInterrupt
\* is caught (202)
Receive(got) ==
    /\ loop = "recv"
    /\ MainRuns
    /\ got \in Receipts
    /\ got.ends = "IOError" => passed < MaxPasses
    /\ msg' = IF got.ends = "message" THEN got.phoneid ELSE msg
    /\ loop' = IF got.ends \in {"Empty", "EINTR"} THEN "top"
               ELSE IF msg' = Unbound \/ msg' \notin DOMAIN phone_workers
               THEN "crashed"
               ELSE "top"
    /\ passed' = CASE got.ends \in {"Empty", "EINTR"} -> passed
                   [] loop' = "crashed" -> IF got.ends = "message" THEN 0
                                          ELSE passed
                   [] got.ends = "message" -> 1
                   [] OTHER -> passed + 1
    /\ UNCHANGED <<phone_workers, stopping, todo, disabled_by, restarted, cmds>>
    /\ UNCHANGED <<mail, server, stop_at>>
    /\ UNCHANGED <<port, conf, clock, cache, pc, ret, tmpf, local, hist, pipe>>

(***************************************************************************)
(* route_cmd (autophone.py 215-280): the per-device commands.              *)
(***************************************************************************)
PhoneCmds == {"disable", "enable", "debug", "ping"}

\* 254-276 under cmd_lock (222, 279): phoneid p is looked up among the
\* workers; a worker found gets the operation, else 'error: phone not found'
RouteCmd(cmd, p) ==
    /\ cmd \in PhoneCmds
    /\ server \in {"serving", "shut"}
    /\ ~cmd_lock
    /\ cmds < MaxCmds
    /\ cmds' = cmds + 1
    /\ IF p \in DOMAIN phone_workers
       THEN /\ phone_workers' =
                  [phone_workers EXCEPT ![p] = worker_op(@, cmd)]
            /\ disabled_by' = [disabled_by EXCEPT ![p] =
                                 CASE cmd = "disable" -> "command"
                                   [] cmd = "enable" -> "none"
                                   [] OTHER -> @]
       ELSE UNCHANGED <<phone_workers, disabled_by>>
    /\ UNCHANGED <<stopping, loop, todo, restarted>>
    /\ UNCHANGED watch
    /\ UNCHANGED <<port, conf, clock, cache, pc, ret, tmpf, local, hist, pipe>>

(***************************************************************************)
(* The command port (autophone.py 51-77, 215-344): the strings of the      *)
(* registry, the persisted snapshot, and the commands of route_cmd taken   *)
(* one step for the lock and one for the body.                             *)
(***************************************************************************)
Conns == {"c1", "c2"}

\* a byte string (str) and a text string (unicode) of Python 2; the kind k
\* says what the bytes are: "ascii", "utf8" with characters beyond ASCII, or
\* "binary", bytes that are no UTF-8
Str(k, x) == [py |-> "str", kind |-> k, text |-> x]
Uni(k, x) == [py |-> "unicode", kind |-> k, text |-> x]

\* a == b of Python 2: a str is compared with a unicode after an ASCII
\* decoding of it, and is unequal to it when that decoding fails
PyEq(a, b) ==
    /\ a.kind = b.kind
    /\ a.text = b.text
    /\ (a.py = b.py \/ a.kind = "ascii")

\* the keys of dict d that equal key
PyKeys(d, key) == {k \in DOMAIN d : PyEq(k, key)}

\* a lookup that finds nothing
PyIn_never(d, key) == FALSE

\* key in d
PyIn(d, key) == PyKeys(d, key) # {}

\* d[key] = v: an equal key that d holds already is kept
PySet(d, key, v) ==
    LET at == IF PyIn(d, key) THEN CHOOSE k \in PyKeys(d, key) : TRUE
              ELSE key
    IN  [x \in DOMAIN d \cup {at} |-> IF x = at THEN v ELSE d[x]]

\* the strings among the values of a phone_cfg
StringFields == {"phoneid", "serial"}

\* json.dumps of a phone_cfg: a str is decoded as UTF-8, which raises
\* UnicodeDecodeError on other bytes; the text of a string is written,
\* whether it was a str or a unicode
Encodable(cfg) ==
    \A f \in StringFields : cfg[f].py = "str" => cfg[f].kind # "binary"

dumps(cfg) ==
    [f \in DOMAIN cfg |->
       IF f \in StringFields
       THEN [json |-> "string", kind |-> cfg[f].kind, text |-> cfg[f].text]
       ELSE cfg[f]]

\* json.loads: every JSON string comes back as a unicode
loads(entry) ==
    [f \in DOMAIN entry |->
       IF f \in StringFields
       THEN Uni(entry[f].kind, entry[f].text)
       ELSE entry[f]]

\* the cache file as open(self._cache, 'wb') or 'w' leaves it: no JSON text
EmptyFile == [json |-> FALSE, phones |-> << >>]

\* the list under 'phones' of the dump: how often each entry stands in it
PhonesList(cfgs) ==
    LET entries == {dumps(cfgs[k]) : k \in DOMAIN cfgs}
    IN  [e \in entries |-> Cardinality({k \in DOMAIN cfgs : dumps(cfgs[k]) = e})]

\* update_phone_cache (340-344): open truncates the file, then the dump of
\* the configs of the registry is written, unless json.dumps raises
update_phone_cache(cfgs) ==
    IF \A k \in DOMAIN cfgs : Encodable(cfgs[k])
    THEN [raises |-> FALSE, file |-> [json |-> TRUE, phones |-> PhonesList(cfgs)]]
    ELSE [raises |-> TRUE, file |-> EmptyFile]

\* the registry with its configs and the workers started in this process
Registry == [workers |-> phone_workers, cfgs |-> phone_cfg, made |-> running]

NoRegistry == [workers |-> << >>, cfgs |-> << >>, made |-> {}]

\* register_phone (282-293): a worker with the next number is constructed,
\* put under the phoneid of its config, and started
register_phone(r, cfg) ==
    LET num == Cardinality(r.made)
        w == start_worker([alive |-> FALSE, state |-> "IDLE", crashes |-> 0,
                           num |-> num], "IDLE")
    IN  [workers |-> PySet(r.workers, cfg.phoneid, w),
         cfgs |-> PySet(r.cfgs, cfg.phoneid, cfg),
         made |-> r.made \cup {[num |-> num, phoneid |-> cfg.phoneid]}]

\* read_cache (325-338), the for loop over the entries es
RECURSIVE read_phones(_, _)
read_phones(r, es) ==
    IF es = << >> THEN r
    ELSE read_phones(register_phone(r, loads(Head(es))), Tail(es))

\* the entries of the list under 'phones' of the file, one for each time
\* it stands there; a file without JSON text has none (332-333)
Entries(file) ==
    IF file.json
    THEN UNION {{<<e, i>> : i \in 1 .. file.phones[e]} :
                  e \in DOMAIN file.phones}
    ELSE {}

\* the orders in which the entries of S can stand in the file
RECURSIVE Orders(_)
Orders(S) ==
    IF S = {} THEN {<< >>}
    ELSE UNION {{<<x>> \o s : s \in Orders(S \ {x})} : x \in S}

\* the names that devices register with, one of each kind
Devices == {Str("ascii", "phone1"), Str("utf8", "phone2"),
            Str("binary", "phone3")}

\* register_cmd 302-303: '%s_%s' % (macaddr, hardware)
PhoneId(name) == [name EXCEPT !.text = <<@, "hardware">>]

\* the pool fact of the device, and str.upper() of it (register_cmd 308)
Pool(name) == Str("ascii", <<"pool", name.text>>)

upper(s) == [s EXCEPT !.text = <<"POOL", @[2]>>]

Serial(name) == upper(Pool(name))

\* the payload of a register command as parse_qs gives it: complete, without
\* name, without pool, or with a cmdport that is no number
Shapes == {"complete", "noname", "nopool", "badport"}

Payload(name, shape) ==
    LET all == [name |-> name, hardware |-> "hardware", pool |-> Pool(name),
                cmdport |-> IF shape = "badport" THEN "port" ELSE "20701"]
        left == CASE shape = "noname" -> {"name"}
                  [] shape = "nopool" -> {"pool"}
                  [] OTHER -> {}
    IN  [f \in DOMAIN all \ left |-> all[f]]

\* int(s) of register_cmd 310
Numerals == {"20701"}

\* what register_phone (293) and register_cmd (318, 321) log or print
Registered == "Registered phone"
Known == "Registering known phone"
Failed == "ERROR: could not write cache file, exiting"

\* register_cmd (295-323) on the registry r: what the try block does,
\* whether it ends in the except clause, and the last it says
register_cmd(r, data) ==
    IF ~({"name", "hardware"} \subseteq DOMAIN data)
    THEN [raises |-> TRUE, registry |-> r, written |-> FALSE, said |-> Failed]
    ELSE LET phoneid == PhoneId(data.name)
         IN  IF PyIn(r.workers, phoneid)
             THEN [raises |-> FALSE, registry |-> r, written |-> FALSE,
                   said |-> Known]
             ELSE IF "pool" \notin DOMAIN data \/ data.cmdport \notin Numerals
             THEN [raises |-> TRUE, registry |-> r, written |-> FALSE,
                   said |-> Failed]
             ELSE LET phone_cfg_ == [phoneid |-> phoneid,
                                     serial |-> upper(data.pool),
                                     sutcmdport |-> [int |-> data.cmdport],
                                     debug |-> 3]
                      reg == register_phone(r, phone_cfg_)
                      raises == update_phone_cache(reg.cfgs).raises
                  IN  [raises |-> raises, registry |-> reg, written |-> TRUE,
                       said |-> IF raises THEN Failed ELSE Registered]

\* the lines that the command port is sent
PortCmds ==
    {[name |-> n] : n \in {"stop", "log", "triggerjobs", "status", "bogus"}}
    \cup {[name |-> "register", data |-> Payload(d, s)] :
            d \in Devices, s \in Shapes}
    \cup {[name |-> n, phoneid |-> PhoneId(d)] :
            n \in PhoneCmds, d \in Devices}
    \cup {[name |-> n, phoneid |-> Serial(d)] :
            n \in {"disable"}, d \in Devices}

NoReply == [lines |-> {}, last |-> "none"]
Idle ==
    [at |-> "idle", cmd |-> [name |-> "none"], said |-> "none",
     reply |-> NoReply]

\* cmd_lock.acquire() (222) goes on when the lock is not held
acquire_unlocked(held) == TRUE

acquire(held) == ~held

\* handle 65-72 and route_cmd 222: a line arrives on connection c, and its
\* handler thread has the command lock
Acquire(c, cmd) ==
    /\ conn[c].at \in {"idle", "replied"}
    /\ lines < MaxLines
    /\ acquire(cmd_lock)
    /\ cmd_lock' = TRUE
    /\ lines' = lines + 1
    /\ conn' = [conn EXCEPT ![c] = [at |-> "body", cmd |-> cmd,
                                    said |-> "none", reply |-> NoReply]]
    /\ UNCHANGED <<phone_workers, stopping, phone_cfg, snapshot, running>>
    /\ UNCHANGED <<server, offport>>

\* route_cmd 279-280 and handle 73-74: the lock is released and the
\* response is sent; said is what the body logged last
Returns(c, said, lines_, last) ==
    /\ cmd_lock' = FALSE
    /\ conn' = [conn EXCEPT ![c].at = "replied", ![c].said = said,
                            ![c].reply = [lines |-> lines_, last |-> last]]

\* an exception leaves route_cmd and handle: nothing is released or sent,
\* and the handler thread of the connection ends
Raises(c) ==
    /\ conn' = [conn EXCEPT ![c].at = "dead"]
    /\ UNCHANGED cmd_lock

\* 228-229
RunStop(c) ==
    /\ conn[c].at = "body"
    /\ conn[c].cmd.name = "stop"
    /\ stopping' = TRUE
    /\ server' = "shut"
    /\ phone_workers' = stop_all(phone_workers)
    /\ Returns(c, "none", {}, "ok")
    /\ UNCHANGED <<phone_cfg, snapshot, running, lines>>
    /\ UNCHANGED offport

\* 230-231
RunLog(c) ==
    /\ conn[c].at = "body"
    /\ conn[c].cmd.name = "log"
    /\ Returns(c, "none", {}, "ok")
    /\ UNCHANGED <<phone_workers, stopping, phone_cfg, snapshot, running, lines>>
    /\ UNCHANGED <<server, offport>>

\* 232-233: trigger_jobs returns, or an exception leaves it
RunTriggerJobs(c) ==
    /\ conn[c].at = "body"
    /\ conn[c].cmd.name = "triggerjobs"
    /\ \/ Returns(c, "none", {}, "ok")
       \/ Raises(c)
    /\ UNCHANGED <<phone_workers, stopping, phone_cfg, snapshot, running, lines>>
    /\ UNCHANGED <<server, offport>>

\* 234-235 and register_cmd: the except clause (320-323) calls stop
RunRegister(c) ==
    /\ conn[c].at = "body"
    /\ conn[c].cmd.name = "register"
    /\ LET did == register_cmd(Registry, conn[c].cmd.data)
       IN  /\ phone_cfg' = did.registry.cfgs
           /\ running' = did.registry.made
           /\ snapshot' = IF did.written
                          THEN update_phone_cache(did.registry.cfgs).file
                          ELSE snapshot
           /\ stopping' = (stopping \/ did.raises)
           /\ server' = IF did.raises THEN "shut" ELSE server
           /\ phone_workers' = IF did.raises
                               THEN stop_all(did.registry.workers)
                               ELSE did.registry.workers
           /\ Returns(c, did.said, {}, "ok")
    /\ UNCHANGED lines
    /\ UNCHANGED offport

\* 236-253: no worker has sent a status message
RunStatus(c) ==
    /\ conn[c].at = "body"
    /\ conn[c].cmd.name = "status"
    /\ Returns(c, "none", {<<k, "no updates">> : k \in DOMAIN phone_workers}, "ok")
    /\ UNCHANGED <<phone_workers, stopping, phone_cfg, snapshot, running, lines>>
    /\ UNCHANGED <<server, offport>>

\* 263-267: the workers whose serial or phoneid equals the argument
Named(phoneid) ==
    {k \in DOMAIN phone_workers :
       \/ PyEq(phone_cfg[k].serial, phoneid)
       \/ PyEq(phone_cfg[k].phoneid, phoneid)}

\* worker.debug(level) on the config of the worker
cfg_op(cfg, cmd) ==
    IF cmd = "debug" THEN [cfg EXCEPT !.debug = 5] ELSE cfg

\* 254-276: the worker found gets the operation and the snapshot is
\* written; an exception of json.dumps leaves route_cmd
RunPhoneCmd(c) ==
    /\ conn[c].at = "body"
    /\ conn[c].cmd.name \in PhoneCmds
    /\ IF Named(conn[c].cmd.phoneid) # {}
       THEN \E k \in Named(conn[c].cmd.phoneid) :
              LET cfgs == [phone_cfg EXCEPT ![k] = cfg_op(@, conn[c].cmd.name)]
                  wrote == update_phone_cache(cfgs)
              IN  /\ phone_workers' = [phone_workers EXCEPT
                                         ![k] = worker_op(@, conn[c].cmd.name)]
                  /\ phone_cfg' = cfgs
                  /\ snapshot' = wrote.file
                  /\ IF wrote.raises THEN Raises(c)
                     ELSE Returns(c, "none", {}, "ok")
       ELSE /\ Returns(c, "none", {}, "error: phone not found")
            /\ UNCHANGED <<phone_workers, phone_cfg, snapshot>>
    /\ UNCHANGED <<stopping, running, lines>>
    /\ UNCHANGED <<server, offport>>

\* 277-278
RunUnknown(c) ==
    /\ conn[c].at = "body"
    /\ conn[c].cmd.name = "bogus"
    /\ Returns(c, "none", {}, "Unknown command")
    /\ UNCHANGED <<phone_workers, stopping, phone_cfg, snapshot, running, lines>>
    /\ UNCHANGED <<server, offport>>

\* the process ends and is started again over the cache file, without
\* clear_cache: __init__ 99-103 and read_cache (325-338)
Reload ==
    /\ \A c \in Conns : conn[c].at # "body"
    /\ \E ks \in Orders(Entries(snapshot)) :
         LET r == read_phones(NoRegistry, [i \in DOMAIN ks |-> ks[i][1]])
         IN  /\ phone_workers' = r.workers
             /\ phone_cfg' = r.cfgs
             /\ running' = r.made
    /\ stopping' = FALSE
    /\ server' = "serving"
    /\ cmd_lock' = FALSE
    /\ conn' = [c \in Conns |-> Idle]
    /\ UNCHANGED <<snapshot, lines>>
    /\ UNCHANGED offport

(***************************************************************************)
(* The initial states and the specifications.                              *)
(***************************************************************************)
\* when the cached build i of an earlier run was last used
Mtime0(i) == IF tied THEN i \div 2 ELSE i

\* a complete entry of an earlier run
OldEntry(i) ==
    [dir |-> TRUE, apk |-> "mozilla-central", lastused |-> Mtime0(i),
     symbols |-> FALSE, tests |-> unittests, robocop |-> unittests,
     ids |-> unittests]

\* __init__ of BuildCache (121-143) over a cache directory of earlier runs:
\* the clock is such that MAX_NUM_BUILDS or more of the entries are expired
InitCache ==
    /\ tied \in BOOLEAN
    /\ override \in {"none", "mozilla-central", "notzip"}
    /\ unittests \in BOOLEAN
    /\ tied => ~unittests
    /\ now = EXPIRE_AFTER_SECONDS + NumBackground - 1
    /\ cache = [d \in Keys |->
                  CASE d = StrayKey -> EmptyDir
                    [] d \in BgKeys -> OldEntry(d)
                    [] OTHER -> NoEntry]
    /\ sweep = NoSweep
    /\ good = {}

\* no trigger has arrived
InitPipeline ==
    /\ pc = [t \in Threads |-> "idle"]
    /\ url = [t \in Threads |-> NewKey]
    /\ force = [t \in Threads |-> FALSE]
    /\ ret = [t \in Threads |-> None]
    /\ tmpf = [t \in Threads |-> "none"]
    /\ known = [t \in Threads |-> FALSE]
    /\ evicted = [t \in Threads |-> FALSE]
    /\ fail = [t \in Threads |-> {}]
    /\ calls = [t \in Threads |-> << >>]
    /\ seen = [t \in Threads |-> "none"]
    /\ build_dir = [t \in Threads |-> None]
    /\ triggers = 0
    /\ cmd_lock = FALSE
    /\ jobq = [p \in Phones |-> << >>]

\* __init__ of AutoPhone (99-103) and the registration of every phone
InitFleet ==
    /\ phone_workers = [p \in Phones |->
                          [alive |-> TRUE, state |-> "IDLE", crashes |-> 0]]
    /\ stopping = FALSE
    /\ loop = "top"
    /\ msg = Unbound
    /\ passed = 0
    /\ mail = "none"
    /\ server = "serving"
    /\ stop_at = [i \in Invokers |-> NotCalled]
    /\ todo = {}
    /\ disabled_by = [p \in Phones |-> "none"]
    /\ restarted = [p \in Phones |->
                      [happened |-> FALSE, crashes |-> 0, state |-> "IDLE"]]
    /\ cmds = 0

\* the phone_cfg of phone p of the fleet
Config(p) ==
    [phoneid |-> PhoneId(Str("ascii", p)), serial |-> Serial(Str("ascii", p)),
     sutcmdport |-> [int |-> "20701"], debug |-> 3]

\* no line has been sent to the command port; the cache file is as the
\* registration of the fleet left it
InitRegistered ==
    /\ built = NotBuilt
    /\ ftp = NoListing
    /\ worker_lock = FALSE
    /\ fanning = NoFanout
    /\ scratch = 0
    /\ conn = [c \in Conns |-> Idle]
    /\ lines = 0
    /\ phone_cfg = [p \in Phones |-> Config(p)]
    /\ snapshot = update_phone_cache(phone_cfg).file
    /\ running = {[num |-> IF p = "phone1" THEN 0 ELSE 1,
                   phoneid |-> Config(p).phoneid] : p \in Phones}

\* no call of is_valid_job is looked at
InitPort ==
    /\ probe = NoProbe
    /\ InitRegistered

Init == InitCache /\ InitPipeline /\ InitFleet /\ InitPort

\* the job pipeline over the build cache: triggers from the command port
\* and from the notification feed, and the clock
Next ==
    \/ \E u \in Urls : TriggerJobs(u)
    \/ \E u \in Urls : OnBuild(u)
    \/ \E t \in Threads : GetEnter(t)
    \/ \E t \in Threads : GetFetch(t)
    \/ \E t \in Threads : GetExtras(t)
    \/ \E t \in Threads : GetBuild(t)
    \/ \E t \in Threads : GetBuildAgain(t)
    \/ \E t \in Threads : StartJob(t)

Spec == Init /\ [][Next]_vars

\* the fleet: one cache configuration, no trigger
InitSupervision ==
    /\ Init
    /\ ~tied
    /\ override = "none"
    /\ ~unittests

\* the control loop, the workers and the per-device commands
NextFleet ==
    \/ \E p \in Phones : WorkerDies(p)
    \/ \E p \in Phones, st \in States : WorkerReports(p, st)
    \/ LoopTop
    \/ \E p \in Phones, e \in MailEnds : CheckWorker(p, e)
    \/ SweepDone
    \/ \E got \in Receipts : Receive(got)
    \/ \E cmd \in PhoneCmds, p \in Phones \cup {NoPhone} : RouteCmd(cmd, p)

SpecFleet == InitSupervision /\ [][NextFleet]_vars

\* the fan-out: the pipeline over a registry whose workers are idle or
\* disabled, and notifications without a build URL
InitFanout ==
    /\ InitCache /\ InitPipeline /\ InitPort
    /\ ~tied /\ ~unittests
    /\ phone_workers \in
         [Phones -> {[alive |-> TRUE, state |-> st, crashes |-> 0] :
                       st \in {"IDLE", DISABLED}}]
    /\ stopping = FALSE
    /\ loop = "top"
    /\ msg = Unbound
    /\ passed = 0
    /\ mail = "none"
    /\ server = "serving"
    /\ stop_at = [i \in Invokers |-> NotCalled]
    /\ todo = {}
    /\ disabled_by = [p \in Phones |-> "none"]
    /\ restarted = [p \in Phones |->
                      [happened |-> FALSE, crashes |-> 0, state |-> "IDLE"]]
    /\ cmds = 0

NextFanout ==
    \/ \E u \in Urls : TriggerJobs(u)
    \/ \E u \in Urls : OnBuild(u)
    \/ OnBuildIgnored
    \/ \E t \in Threads : GetEnter(t)
    \/ \E t \in Threads : GetFetch(t)
    \/ \E t \in Threads : GetExtras(t)
    \/ \E t \in Threads : GetBuild(t)
    \/ \E t \in Threads : GetBuildAgain(t)
    \/ \E t \in Threads : StartJob(t)

SpecFanout == InitFanout /\ [][NextFanout]_vars

\* main 534: the AutoPhone is constructed and every phone is registered; the
\* handler of SIGTERM is not installed and run has not been called
InitStop ==
    /\ InitCache /\ InitPipeline /\ InitPort
    /\ ~tied /\ override = "none" /\ ~unittests
    /\ phone_workers = [p \in Phones |->
                          [alive |-> TRUE, state |-> "IDLE", crashes |-> 0]]
    /\ stopping = FALSE
    /\ loop = "installing"
    /\ msg = Unbound
    /\ passed = 0
    /\ mail = "none"
    /\ server = "none"
    /\ stop_at = [i \in Invokers |-> NotCalled]
    /\ todo = {}
    /\ disabled_by = [p \in Phones |-> "none"]
    /\ restarted = [p \in Phones |->
                      [happened |-> FALSE, crashes |-> 0, state |-> "IDLE"]]
    /\ cmds = 0

\* run, the control loop and the calls of stop
NextStop ==
    \/ Install
    \/ RunServer
    \/ RunThread
    \/ StopCmd
    \/ Sigterm
    \/ Interrupt
    \/ \E i \in Invokers : StopStep(i)
    \/ LoopTop
    \/ \E p \in Phones, e \in MailEnds : CheckWorker(p, e)
    \/ SweepDone
    \/ \E got \in Receipts : Receive(got)
    \/ \E p \in Phones : WorkerDies(p)

SpecStop == InitStop /\ [][NextStop]_vars

\* a descriptor as build_job makes it (443-450)
FullJob ==
    [cache_build_dir |-> [root |-> "cache_dir", key |-> NewKey],
     tree |-> "mozilla-central",
     blddate |-> "mktime(BuildID)",
     buildid |-> "BuildID",
     revision |-> "mozilla-central",
     androidprocname |-> "org.mozilla.fennec",
     version |-> "Version",
     bldtype |-> "opt"]

\* the arguments is_valid_job is tried with: None, and the descriptor with
\* any of its keys left out
ProbeJobs ==
    {NullJob} \cup {[k \in S |-> FullJob[k]] : S \in SUBSET DOMAIN FullJob}

\* is_valid_job alone, on each of these arguments
InitValidate ==
    /\ InitCache /\ InitPipeline /\ InitFleet
    /\ ~tied /\ override = "none" /\ ~unittests
    /\ InitRegistered
    /\ probe \in {[job |-> j, ends |-> [pending |-> TRUE]] : j \in ProbeJobs}

NextValidate == IsValidJob

SpecValidate == InitValidate /\ [][NextValidate]_vars

\* build_job alone, called again and again
NextBuildJob ==
    \/ \E d \in {None, Dir}, a \in Apks : BuildJobBegins(d, a)
    \/ BuildJobReturns

SpecBuildJob == InitSupervision /\ [][NextBuildJob]_vars

\* the listings of up to MaxListing lines
Listings == UNION {[1..n -> FtpLines] : n \in 0..MaxListing}

\* find_builds alone, for either build location and every listing
NextListing ==
    \/ \E s \in {"nightly", "tinderbox"}, l \in Listings : FtpDir(s, l)
    \/ FindBuildsLine
    \/ FindBuildsReturns

SpecListing == InitSupervision /\ [][NextListing]_vars

\* __init__ (99-116) where there is no cache file: no phone is registered,
\* and the cache file is made empty
InitDesk ==
    /\ InitCache /\ InitPipeline
    /\ ~tied /\ override = "none" /\ ~unittests
    /\ phone_workers = << >>
    /\ stopping = FALSE
    /\ loop = "top"
    /\ msg = Unbound
    /\ passed = 0
    /\ mail = "none"
    /\ server = "serving"
    /\ stop_at = [i \in Invokers |-> NotCalled]
    /\ todo = {}
    /\ disabled_by = [p \in Phones |-> "none"]
    /\ restarted = [p \in Phones |->
                      [happened |-> FALSE, crashes |-> 0, state |-> "IDLE"]]
    /\ cmds = 0
    /\ probe = NoProbe
    /\ built = NotBuilt
    /\ ftp = NoListing
    /\ worker_lock = FALSE
    /\ fanning = NoFanout
    /\ scratch = 0
    /\ conn = [c \in Conns |-> Idle]
    /\ lines = 0
    /\ phone_cfg = << >>
    /\ snapshot = EmptyFile
    /\ running = {}

\* the command port: the lines of its connections, and the restart of the
\* process over the cache file
NextPort ==
    \/ \E c \in Conns, cmd \in PortCmds : Acquire(c, cmd)
    \/ \E c \in Conns : RunStop(c)
    \/ \E c \in Conns : RunLog(c)
    \/ \E c \in Conns : RunTriggerJobs(c)
    \/ \E c \in Conns : RunRegister(c)
    \/ \E c \in Conns : RunStatus(c)
    \/ \E c \in Conns : RunPhoneCmd(c)
    \/ \E c \in Conns : RunUnknown(c)
    \/ Reload

SpecPort == InitDesk /\ [][NextPort]_vars

\* the command port, and beside it the notification callback (on_build)
\* that has come to the for loop of start_tests
NextLocks ==
    \/ NextPort
    \/ FanOutAcquire
    \/ FanOutAdd
    \/ FanOutRelease

SpecLocks == InitDesk /\ [][NextLocks]_vars

(***************************************************************************)
(* The properties.                                                         *)
(***************************************************************************)
\* entry d of cache directory c is expired at time t: it has a lastused
\* marker older than EXPIRE_AFTER_SECONDS
Expired(c, d, t) ==
    /\ c[d].dir
    /\ c[d].lastused # NoMarker
    /\ t - c[d].lastused > EXPIRE_AFTER_SECONDS

\* thread t takes the step of get that runs the eviction sweep
Sweeps(t) == pc[t] = "get_enter" /\ pc'[t] # "get_enter" /\ override = "none"

\* the entries that the step removes
Removed == {d \in Keys : cache[d].dir /\ ~cache'[d].dir}

\* the preserve arguments the sweep is tried with
PreserveSets == SUBSET {1, 2, NewKey}

\* C1: clean_cache(preserve), run on the cache directory as it is when a
\* call of get begins, never removes an entry whose key is in preserve,
\* however old its lastused and however many entries are expired; and the
\* sweep that get(url) runs leaves the entry of url as it was.
C1_PreservedKeysSurvive ==
    /\ (\E t \in Threads : pc[t] = "get_enter") =>
         \A P \in PreserveSets :
           \A R \in clean_cache(cache, P, now) : R \cap P = {}
    /\ sweep.by \in Threads =>
         /\ sweep.removed \cap sweep.preserve = {}
         /\ sweep.stale => Expired(cache, url[sweep.by], now)

\* C1: a sweep of get has removed entries while the entry of its own URL was
\* expired, and older than any entry removed
C1_Witness ==
    /\ sweep.by \in Threads
    /\ sweep.stale
    /\ sweep.removed # {}
    /\ url[sweep.by] = 1

\* C2: after the sweep at most MAX_NUM_BUILDS entries are left that are
\* expired and not preserved; what it removes are as many of the expired,
\* non-preserved entries as were beyond MAX_NUM_BUILDS, none of them used
\* later than an expired, non-preserved entry that stays; no entry that is
\* fresh or has no lastused marker is removed.
C2_SweepLeavesNewest ==
    [][\A t \in Threads : Sweeps(t) =>
         LET P == {url[t]}
             old == {d \in Keys \ P : Expired(cache, d, now)}
             left == {d \in Keys \ P : Expired(cache', d, now)}
         IN  /\ Cardinality(left) <= MAX_NUM_BUILDS
             /\ Removed \subseteq old
             /\ left = old \ Removed
             /\ Cardinality(old) > MAX_NUM_BUILDS =>
                  Cardinality(left) = MAX_NUM_BUILDS
             /\ Cardinality(old) <= MAX_NUM_BUILDS => Removed = {}
             /\ \A r \in Removed : \A d \in left :
                  cache[r].lastused <= cache[d].lastused]_vars

\* C2: a sweep has removed as many entries as there were beyond
\* MAX_NUM_BUILDS, while a directory without a lastused marker stayed
C2_Witness ==
    /\ sweep.by \in Threads
    /\ Cardinality(sweep.removed) = ExtraBuilds
    /\ cache[StrayKey].dir
    /\ Cardinality({d \in BgKeys : cache[d].dir}) = MAX_NUM_BUILDS

\* C3: while a thread is inside get for one URL, between the sweep of its
\* call and the call's return, no sweep of another thread's get removes the
\* entry of that URL.
C3_NoEvictionDuringAcquire == \A t \in Threads : ~evicted[t]

\* C4: once an unforced get(url) has returned the directory and while the
\* entry has not been evicted, an unforced get(url) downloads no build.apk
\* and sets the entry's lastused to the time of the call.
C4_RepeatedAcquire ==
    [][\A t \in Threads :
         /\ (Sweeps(t) /\ url[t] \in good /\ ~force[t]) =>
              pc'[t] = "get_extras"
         /\ (pc[t] = "get_extras" /\ pc'[t] = "got" /\ known[t]
               /\ ~evicted[t] /\ ~force[t]) =>
              /\ cache'[url[t]].lastused = now
              /\ cache'[url[t]].apk = cache[url[t]].apk]_vars

\* C4: a second unforced get of a URL has returned the directory, some time
\* after the first one
C4_Witness ==
    \E t \in Threads :
      /\ pc[t] = "got"
      /\ known[t] /\ ~evicted[t] /\ ~force[t]
      /\ ret[t] = Dir
      /\ cache[url[t]].lastused = now
      /\ now > EXPIRE_AFTER_SECONDS + NumBackground

\* the step in which thread t's download of build.apk fails
DownloadFails(t) == pc[t] = "get_fetch" /\ pc'[t] = "got" /\ ret'[t] = None

\* C5, as the code has it: when the download of build.apk fails, get returns
\* None, the temporary file is gone and the cache directory is as it was
\* before the attempt, so an entry holds the build.apk it held before (none
\* on a first acquisition, the earlier one on a forced one); no entry ever
\* holds a part of a download.
C5_FailedDownloadChangesNothing ==
    [][/\ \A k \in Keys : cache'[k].apk \in Artifacts \cup {"absent"}
       /\ \A t \in Threads : DownloadFails(t) =>
            /\ tmpf'[t] = "none"
            /\ cache' = cache]_vars

\* C5: a forced download has failed and the entry still holds the build.apk
\* of the earlier download
C5_Witness ==
    \E t \in Threads :
      /\ pc[t] = "got"
      /\ "build" \in fail[t]
      /\ force[t]
      /\ ret[t] = None
      /\ cache[url[t]].apk \in Artifacts

\* C5, as the specification has it: when the download of build.apk fails,
\* get returns None and the entry holds no build.apk afterwards, neither a
\* part of one nor a temporary file.
C5_FailedDownloadLeavesNoArtifact ==
    \A t \in Threads :
      (pc[t] = "got" /\ "build" \in fail[t]) =>
        /\ ret[t] = None
        /\ tmpf[t] = "none"
        /\ cache[url[t]].apk = "absent"

\* C6: a get with enable_unittests returns no directory when the fetch of
\* the tests package, of robocop.apk or of fennec_ids.txt fails in it; when
\* only the fetch of the symbols package fails, get returns what it returns
\* without that failure, the directory.
C6_ExtrasFailures ==
    \A t \in Threads :
      pc[t] = "got" =>
        /\ fail[t] \cap {"tests", "robocop", "ids"} # {} => ret[t] # Dir
        /\ fail[t] = {"symbols"} => ret[t] = Dir

\* build.apk files that fail the validation of an archive
Corrupt == {"notzip", "badcrc", "partial"}

\* C7: a trigger calls get at most twice, first without force, and a second
\* time, with force, exactly when the build.apk of the first call fails
\* archive validation; no job made from a corrupt build.apk is given to a
\* worker.
C7_AcquireProtocol ==
    /\ \A t \in Threads :
         /\ Len(calls[t]) <= 2
         /\ Len(calls[t]) >= 1 => ~calls[t][1]
         /\ Len(calls[t]) = 2 => calls[t][2]
         /\ pc[t] = "build_job" =>
              (Len(calls[t]) = 2 <=> seen[t] \in Corrupt)
    /\ \A p \in DOMAIN jobq : \A i \in 1 .. Len(jobq[p]) :
         jobq[p][i].revision \notin Corrupt

\* C8: the liveness sweep restarts a dead worker DISABLED exactly when its
\* crash counter, this death counted, is over the threshold, and
\* DISCONNECTED otherwise.
C8_RestartState ==
    \A p \in Phones :
      restarted[p].happened =>
        restarted[p].state = IF restarted[p].crashes > CrashThreshold
                             THEN DISABLED ELSE DISCONNECTED

\* C8: one worker has been restarted DISABLED and another DISCONNECTED
C8_Witness ==
    \E p, q \in Phones :
      /\ restarted[p].happened /\ restarted[p].state = DISABLED
      /\ restarted[p].crashes = CrashThreshold + 1
      /\ restarted[q].happened /\ restarted[q].state = DISCONNECTED

\* C9: a worker that the crash policy or a disable command has disabled is
\* DISABLED until an enable command for it is executed.
C9_DisabledIsSticky ==
    \A p \in Phones :
      disabled_by[p] # "none" => phone_workers[p].state = DISABLED

\* the fields a descriptor must have
RequiredFields ==
    {"tree", "androidprocname", "revision", "blddate", "bldtype", "version"}

\* C10: every descriptor that add_job was given, on either trigger path, is
\* a descriptor and has every required field.
C10_DispatchedJobsAreComplete ==
    \A p \in DOMAIN jobq : \A i \in 1 .. Len(jobq[p]) :
      /\ jobq[p][i] # NullJob
      /\ RequiredFields \subseteq DOMAIN jobq[p][i]
      /\ jobq[p][i].androidprocname # ""

\* C10: every worker has been given the jobs of two triggers
C10_Witness ==
    \A p \in Phones : Len(jobq[p]) = 2

\* C11: is_valid_job returns True for a descriptor that has every key it
\* is to look for, and for a descriptor that lacks some of them it raises
\* the invalid-job error (NameError) whose message names every missing key;
\* it never returns True for such a descriptor.
C11_ValidJobContract ==
    ("pending" \notin DOMAIN probe.ends /\ probe.job # NullJob) =>
      LET missing == {"androidprocname", "revision", "blddate", "bldtype",
                      "version"} \ DOMAIN probe.job
      IN  /\ missing = {} => probe.ends = [returns |-> TRUE]
          /\ missing # {} =>
               probe.ends = [raises |-> "NameError", names |-> missing]

\* two phone_cfg are the same to the program
CfgEq(a, b) ==
    /\ DOMAIN a = DOMAIN b
    /\ \A f \in DOMAIN a :
         IF f \in StringFields THEN PyEq(a[f], b[f]) ELSE a[f] = b[f]

\* the registries with configs a and b have the same ids and configs
SameRegistry(a, b) ==
    /\ \A k \in DOMAIN a : \E k2 \in DOMAIN b :
         PyEq(k, k2) /\ CfgEq(a[k], b[k2])
    /\ \A k2 \in DOMAIN b : \E k \in DOMAIN a :
         PyEq(k, k2) /\ CfgEq(a[k], b[k2])

\* every id of the registry has one started worker, and every started worker
\* is the worker of an id
OneWorkerEach(ws, made) ==
    /\ \A k \in DOMAIN ws :
         /\ ws[k].alive
         /\ Cardinality({w \in made : w.phoneid.text = k.text}) = 1
    /\ \A w \in made : \E k \in DOMAIN ws : ws[k].num = w.num

\* the cache file holds the registry
Persisted == update_phone_cache(phone_cfg) = [raises |-> FALSE, file |-> snapshot]

\* C12: when the registry has been persisted and the process reloads it from
\* the cache file, the reloaded registry has the same ids and configs, and
\* exactly one started worker for each id.
C12_RoundTrip ==
    [][(Reload /\ Persisted) =>
         /\ SameRegistry(phone_cfg, phone_cfg')
         /\ OneWorkerEach(phone_workers', running')]_vars

\* connection c gets the reply to a register command with a name and a
\* hardware fact in this step
Registers(c) ==
    /\ conn[c].at = "body"
    /\ conn[c].cmd.name = "register"
    /\ {"name", "hardware"} \subseteq DOMAIN conn[c].cmd.data
    /\ conn'[c].at = "replied"

InBody == {c \in Conns : conn[c].at = "body"}

\* C14: at most one connection has a command in its body, and the command
\* lock is held while it is there.
C14_OneCommandAtATime ==
    /\ Cardinality(InBody) <= 1
    /\ InBody # {} => cmd_lock

\* C14: one connection has its reply, and the other one's command is in
\* its body and holds the lock
C14_Witness ==
    /\ conn["c1"].at = "replied"
    /\ conn["c2"].at = "body"
    /\ cmd_lock

\* C15: when the handler thread of the command port is in no command, the
\* command lock is free, so that the next command can be executed.
C15_LockFreeAfterCommand == pc["cmd"] = "idle" => ~cmd_lock

\* the payload of a register command lacks a fact or has a port that is no
\* number
Malformed(data) ==
    \/ DOMAIN data # DOMAIN Payload(Str("ascii", "phone1"), "complete")
    \/ data.cmdport \notin Numerals

\* C16: a register command with a malformed payload stops neither the
\* orchestrator nor a worker and leaves the registry and the cache file as
\* they are.
C16_MalformedRegisterIsReported ==
    [][\A c \in Conns :
         (/\ conn[c].at = "body"
          /\ conn[c].cmd.name = "register"
          /\ Malformed(conn[c].cmd.data)
          /\ conn'[c].at # "body") =>
            UNCHANGED <<stopping, phone_workers, phone_cfg, snapshot, running>>]_vars

\* the cache file lists exactly the configs cfgs
Lists(file, cfgs) == file.json /\ file.phones = PhonesList(cfgs)

\* connection c gets the reply to its command in this step
Replied(c) == conn[c].at = "body" /\ conn'[c].at = "replied"

\* the command of connection c registers a device that the registry does
\* not hold, with a complete payload
RegistersNew(c) ==
    /\ conn[c].cmd.name = "register"
    /\ ~Malformed(conn[c].cmd.data)
    /\ ~\E k \in DOMAIN phone_workers : PyEq(k, PhoneId(conn[c].cmd.data.name))

\* the command of connection c is a per-device command for a known device
OnKnownDevice(c) ==
    /\ conn[c].cmd.name \in PhoneCmds
    /\ Named(conn[c].cmd.phoneid) # {}

\* C18: when a register command for a new device or a per-device command for
\* a known device gets its reply, the cache file lists exactly the configs of
\* the workers of the registry; a per-device command for an unknown device,
\* an unknown command, status and log leave the cache file as it is.
C18_SnapshotFollowsRegistry ==
    [][\A c \in Conns : Replied(c) =>
         /\ (RegistersNew(c) \/ OnKnownDevice(c)) =>
              /\ DOMAIN phone_cfg' = DOMAIN phone_workers'
              /\ Lists(snapshot', phone_cfg')
         /\ (\/ conn[c].cmd.name \in {"status", "log", "bogus"}
             \/ (conn[c].cmd.name \in PhoneCmds /\ ~OnKnownDevice(c))) =>
              UNCHANGED snapshot]_vars

\* the commands that route_cmd recognizes
Recognized == {"stop", "log", "triggerjobs", "register", "status"} \cup PhoneCmds

\* the body of the command of connection c ends in this step
Ends(c) == conn[c].at = "body" /\ conn'[c].at # "body"

\* C19: every recognized command gets a reply; its last line is ok, except
\* for a per-device command whose argument matches no worker, which gets
\* error: phone not found and leaves every worker as it is; the reply to
\* status has no updates for every device that has sent no status message.
C19_Replies ==
    [][\A c \in Conns : (Ends(c) /\ conn[c].cmd.name \in Recognized) =>
         /\ conn'[c].at = "replied"
         /\ IF conn[c].cmd.name \in PhoneCmds /\ ~OnKnownDevice(c)
            THEN /\ conn'[c].reply.last = "error: phone not found"
                 /\ UNCHANGED <<phone_workers, phone_cfg>>
            ELSE conn'[c].reply.last = "ok"
         /\ conn[c].cmd.name = "status" =>
              conn'[c].reply.lines =
                {<<k, "no updates">> : k \in DOMAIN phone_workers}]_vars

\* C17: the control loop has ended only if a stop was requested.
C17_LoopRunsUntilStop == loop \in {"exited", "crashed"} => stopping

\* the call of stop by invoker i executes a statement in this step
Steps(i) == stop_at'[i].done = stop_at[i].done + 1

\* the statements of stop take effect in the order flag, server, workers,
\* join
StopInOrder ==
    \A i \in Invokers : Steps(i) =>
      CASE stop_at'[i].done = 1 ->
             stopping' /\ UNCHANGED <<server, phone_workers>>
        [] stop_at'[i].done = 2 ->
             stopping /\ server' = "shut" /\ UNCHANGED phone_workers
        [] stop_at'[i].done = 3 ->
             /\ stopping /\ server = "shut" /\ UNCHANGED server
             /\ \A k \in DOMAIN phone_workers : ~phone_workers'[k].alive
        [] OTHER ->
             /\ stopping /\ server = "shut"
             /\ UNCHANGED <<server, phone_workers>>
             /\ stop_at'[i].state = "returned"

\* the call of stop by invoker i can not return: it has raised, or it is
\* the main thread that waits for a serve_forever which only the main
\* thread would start
Stuck(i) ==
    \/ stop_at[i].state = "raised"
    \/ /\ stop_at[i].state = "on"
       /\ i = "signal"
       /\ server = "created"
       /\ stop_at[i].done = 1

\* C20: the statements of stop take effect in the order flag, server,
\* workers, join, and a call of stop from the command port, from the handler
\* of SIGTERM or from the control loop is never in a state from which it can
\* not return.
C20_StopSequence ==
    /\ [][StopInOrder]_vars
    /\ [](\A i \in Invokers : ~Stuck(i))

\* thread t ends a trigger in this step, after build_job
FansOut(t) == pc[t] = "build_job" /\ pc'[t] = "idle"

\* the acquisition of thread t's trigger gave a build directory whose
\* build.apk is an archive of a repository that build_job knows
Acquired(t) == build_dir[t] = Dir /\ RepoOf(ApkOf(t)) \in DOMAIN RepoTable
               /\ ApkOf(t) \notin {"absent", "notzip", "partial"}

\* C21: a trigger whose acquisition and validation succeed appends one and
\* the same descriptor once to the queue of every worker of the registry,
\* disabled or not; no other step, and no notification without a build URL,
\* gives a worker a job or starts an acquisition.
C21_FanOutOnce ==
    [][/\ \A t \in Threads : (FansOut(t) /\ Acquired(t)) =>
            \E j \in {jobq'[p][Len(jobq'[p])] : p \in {q \in Phones : jobq'[q] # << >>}} :
              /\ j # NullJob
              /\ \A p \in DOMAIN phone_workers :
                   jobq'[p] = Append(jobq[p], j)
       /\ (\A t \in Threads : ~FansOut(t)) => UNCHANGED jobq
       /\ (triggers' # triggers /\ pc' = pc) => UNCHANGED <<cache, calls, jobq>>]_vars

\* C21: a trigger has given its descriptor to every worker, and one of the
\* workers is disabled
C21_Witness ==
    /\ \E p \in Phones : phone_workers[p].state = DISABLED
    /\ \A p \in Phones : Len(jobq[p]) = 1 /\ jobq[p] = jobq["phone1"]
    /\ jobq["phone1"][1] # NullJob

\* C22: a call of build_job on a build.apk that is no readable archive or
\* has no application.ini returns None, and when no call of build_job is
\* running none of its scratch directories exists.
C22_BuildJobCleansUp ==
    built.ends # "pending" =>
      /\ scratch = 0
      /\ (built.dir = Dir /\ built.apk \in {"notzip", "partial", "noini"}) =>
           built.ends = "None"


\* C23: a call of build_job on a build.apk whose source repository is none
\* of the four of the lookup table runs to its return and yields a
\* descriptor (which validation then rejects); it does not raise.
C23_UnknownRepoIsRejected ==
    (built.dir = Dir /\ built.ends # "pending"
       /\ built.apk \in Artifacts \ {"notzip", "badcrc"}
       /\ RepoOf(built.apk) \notin DOMAIN RepoTable) =>
      built.ends = "job"


\* the sweep has just dealt with the dead worker p: it is restarted
Swept(p) ==
    /\ loop = "sweep"
    /\ p \in todo
    /\ todo' = todo \ {p}
    /\ ~phone_workers[p].alive
    /\ phone_workers'[p].alive

\* C24: whenever the sweep has restarted a dead worker and the notification
\* was not sent, the control loop is still in its sweep, with the workers
\* not yet visited still to be checked.
C24_MailFailureIsSwallowed ==
    [][\A p \in Phones :
         (Swept(p) /\ mail' # "sent") => loop' = "sweep"]_vars


\* C25: the status message the control loop holds has been passed to
\* process_msg of its worker once, and never a second time.
C25_EachMessageOnce ==
    (msg \in DOMAIN phone_workers /\ loop # "crashed") => passed = 1


\* C26: the registry mapping gets a new worker only in steps taken while
\* no fan-out is inside the for loop of start_tests, that is, registration
\* and fan-out exclude one another.
C26_OneMutex ==
    [][(DOMAIN phone_workers' # DOMAIN phone_workers) => fanning.at = "off"]_vars


\* the control loop is scheduled: a statement of worker_msg_loop that can
\* be executed is executed, and the wait of line 195 ends within its timeout
FairLoop ==
    /\ WF_vars(LoopTop)
    /\ WF_vars(\E p \in Phones, e \in MailEnds : CheckWorker(p, e))
    /\ WF_vars(SweepDone)
    /\ WF_vars(\E got \in Receipts : Receive(got))

SpecFleetFair == SpecFleet /\ FairLoop

\* C27: a worker that is not alive while the orchestrator is not stopping
\* is in the end alive again, restarted by the sweep, or the orchestrator
\* is stopping.
C27_DeadWorkersAreRestarted ==
    \A p \in Phones :
      (~phone_workers[p].alive /\ ~stopping)
        ~> (phone_workers[p].alive \/ stopping)


\* a line that is a build entry of the strategy: a directory named
\* <date>-<repo>-android for nightly, one named by a time in seconds for
\* tinderbox
BuildEntry(strategy, line) ==
    /\ line.fields = 9
    /\ IF strategy = "nightly" THEN line.stamp = "date" /\ line.suffix
       ELSE line.stamp = "epoch" /\ ~line.suffix

\* C28: find_builds is never left by an exception of build_info_from_ftp:
\* while it goes through a listing, each line that is no build entry has
\* been skipped and the lines after it are still gone through.
C28_OtherLinesAreSkipped ==
    /\ ftp.at \in {"off", "lines", "returned"}
    /\ ftp.at = "returned" =>
         \A i \in 1..Len(ftp.builds) : BuildEntry(ftp.strategy, ftp.builds[i])


\* C29: when a call of get with enable_unittests returns the entry
\* directory, that directory holds tests/, robocop.apk and fennec_ids.txt.
C29_ReturnedEntryHasTests ==
    [][\A t \in Threads :
         (unittests /\ pc[t] = "get_extras" /\ pc'[t] # "get_extras"
            /\ ret'[t] = Dir) =>
           /\ cache'[url[t]].tests
           /\ cache'[url[t]].robocop
           /\ cache'[url[t]].ids]_vars


\* some call of stop has returned
StopReturned == \E i \in Invokers : stop_at[i].state = "returned"

\* C30: in a step taken while the stop flag is set no worker's crash count
\* grows and no worker that is not alive becomes alive; and once stop has
\* returned and the control loop has exited, no worker is alive.
C30_NoRestartAfterStop ==
    [][/\ stopping =>
            \A p \in DOMAIN phone_workers :
              /\ phone_workers'[p].crashes = phone_workers[p].crashes
              /\ phone_workers'[p].alive => phone_workers[p].alive
       /\ (StopReturned /\ loop = "exited")' =>
            \A p \in DOMAIN phone_workers : ~phone_workers'[p].alive]_vars


\* C31: when a call of get that went to the cache returns, or is left by an
\* exception, the entry directory of its URL does not exist or holds both a
\* build.apk and a lastused marker, the marker without which keep_build
\* never lets the sweep remove a directory.
C31_EntriesAreManaged ==
    [][\A t \in Threads :
         (override = "none" /\ pc[t] \in {"get_enter", "get_fetch", "get_extras"}
            /\ pc'[t] = "got") =>
           \/ ~cache'[url[t]].dir
           \/ /\ cache'[url[t]].apk # "absent"
              /\ cache'[url[t]].lastused # NoMarker]_vars

=============================================================================
